---- MODULE Spec2Model ----
(***************************************************************************)
(* WomCast cast service: the session/pairing lifecycle manager             *)
(* (apps/backend/cast/sessions.py), the pairing endpoint and the WebSocket *)
(* handler built on it (apps/backend/cast/main.py) and the audio relay     *)
(* with its bounded rolling buffer (apps/backend/cast/audio_relay.py); and *)
(* the circuit breaker of the connectors with the retry loop that consults *)
(* it (apps/backend/common/resilience.py).                                 *)
(*                                                                         *)
(* The service runs on one asyncio event loop.  Every SessionManager       *)
(* method is synchronous and _cleanup_expired contains no await, so each   *)
(* of them is one atomic step; the wall clock (datetime.now) advances      *)
(* independently of the handlers.                                          *)
(***************************************************************************)
EXTENDS Integers, Sequences, FiniteSets, TLC

(***************************************************************************)
(* Bounds of the model.                                                    *)
(***************************************************************************)
\* the clock runs over 0..MaxTime; MaxTime stands for every later instant
MaxTime == 3
\* SessionManager(session_ttl=...), scaled down from the default 300
session_ttl == 1
\* SessionManager(cleanup_interval=...), scaled down from the default 60
cleanup_interval == 1
\* chunks accepted by one stream between start/clear and the next clear/stop
MaxReceived == 2
\* a chunk holds a whole number of units of ChunkUnitSeconds seconds of audio
ChunkUnitSeconds == 12
\* add_chunk calls made on one AudioBuffer followed on its own
MaxAdds == 3
\* CircuitBreaker(failure_threshold=...), scaled down from the default 5
failure_threshold == 2
\* CircuitBreaker(success_threshold=...), the default
success_threshold == 2
\* CircuitBreaker(timeout=...), scaled down from the default 30.0
timeout == 2
\* RetryConfig(max_attempts=...), scaled down from the default 3
max_attempts == 2
\* failure_count is followed up to MaxFailureCount
MaxFailureCount == 3

(***************************************************************************)
(* Values.                                                                 *)
(***************************************************************************)
\* two sessions are enough for equal PINs and for one live, one expired
SessionIds == {1, 2}
\* 6-digit PINs; two values are enough for equal and distinct PINs
Pins == {"000000", "123456"}
\* Python None for `datetime | None`
Null == -1
\* dict[str, Any] as a set of <<key, value>> pairs
EmptyDict == {}
Pixel == {<<"model", "Pixel">>}
\* `dict | None` argument: <<>> is None, <<d>> is the dict d
DeviceInfoArgs == {<<>>, <<EmptyDict>>, <<Pixel>>}
\* `Session | None` results: <<>> is None, <<s>> is the session s
Absent == <<>>

Min(a, b) == IF a < b THEN a ELSE b

\* WebSocket connections to /v1/cast/ws/{session_id}; two are enough for
\* one that ends and one that goes on
ConnIds == {1, 2}
\* payloads of inbound text frames: a JSON object with a type, JSON that
\* is not an object, and text that is not JSON
TextFrames == {"{\"type\": \"offer\"}", "[1]", "{\"type\": "}
\* the session the clients connect for; the other id is never created in
\* the channel's runs and stands for an unknown session id
ChannelSession == 1

VARIABLES
    sessions,       \* SessionManager._sessions: dict in insertion order
    next_id,        \* the number of the next secrets.token_urlsafe draw
    issued,         \* the ids create_session has returned so far
    now,            \* datetime.now(UTC)
    cleanup_task,   \* SessionManager._cleanup_task: "none" | "running"
    reaper_tasks,   \* the number of _cleanup_loop tasks on the event loop
    wake_at,        \* the instant the reaper's current sleep ends
    last,           \* the last call and what it returned
    reaped,         \* id and paired flag of the sessions the reaper removed
    active_streams, \* AudioRelay._active_streams: session id -> chunks
    stream_locks,   \* AudioRelay._stream_locks: ids that own a lock
    received,       \* per stream, chunks accepted since start / last clear
    stopped,        \* ids whose stream was stopped, where this is followed
    breaker,        \* a CircuitBreaker: state, counts, last_failure_time
    retry,          \* a retry_with_backoff call: where it stands
    tally,          \* failures since the last success and the time of the
                    \* last; successes recorded in HALF_OPEN since it was
                    \* entered or a failure
    conns           \* per connection, the position of its websocket_endpoint

sessionVars == <<sessions, next_id, issued, now, cleanup_task, reaper_tasks,
                 wake_at, last, reaped>>
audioVars == <<active_streams, stream_locks, received, stopped>>
channelVars == <<conns>>
resilienceVars == <<breaker, retry, tally>>
vars == <<sessions, next_id, issued, now, cleanup_task, reaper_tasks, wake_at,
          last, reaped, active_streams, stream_locks, received, stopped,
          conns, breaker, retry, tally>>

(***************************************************************************)
(* Session (sessions.py, dataclass Session).                               *)
(***************************************************************************)
NewSession(id, pin, t, exp) ==
    [id |-> id, pin |-> pin, created_at |-> t, expires_at |-> exp,
     paired |-> FALSE, paired_at |-> Null, device_info |-> EmptyDict,
     signaling_state |-> "new"]

\* faulty variant: a session never expires
is_expired_never(s, t) == FALSE

\* Session.is_expired: datetime.now(UTC) > self.expires_at
is_expired(s, t) == t > s.expires_at

\* Session.is_active: self.paired and not self.is_expired
is_active(s, t) == s.paired /\ ~is_expired(s, t)

\* datetime.isoformat(): the instant as text
isoformat(t) == <<"iso", t>>

\* a serialized view that always carries the PIN
to_dict_showing_pin(s, t) ==
    [id |-> s.id,
     pin |-> <<s.pin>>,
     created_at |-> isoformat(s.created_at),
     expires_at |-> isoformat(s.expires_at),
     paired |-> s.paired,
     paired_at |-> IF s.paired_at # Null THEN <<isoformat(s.paired_at)>> ELSE <<>>,
     device_info |-> s.device_info,
     signaling_state |-> s.signaling_state,
     is_expired |-> is_expired(s, t),
     is_active |-> is_active(s, t)]

\* Session.to_dict; None is <<>> and a value v is <<v>>
to_dict(s, t) ==
    [id |-> s.id,
     pin |-> IF ~s.paired THEN <<s.pin>> ELSE <<>>,
     created_at |-> isoformat(s.created_at),
     expires_at |-> isoformat(s.expires_at),
     paired |-> s.paired,
     paired_at |-> IF s.paired_at # Null THEN <<isoformat(s.paired_at)>> ELSE <<>>,
     device_info |-> s.device_info,
     signaling_state |-> s.signaling_state,
     is_expired |-> is_expired(s, t),
     is_active |-> is_active(s, t)]

(***************************************************************************)
(* SessionManager: the dict and its pure operations.                       *)
(***************************************************************************)
Range(seq) == {seq[i] : i \in 1..Len(seq)}

Ids(store) == {store[i].id : i \in 1..Len(store)}

\* self._sessions.get(session_id): <<>> or <<session>>
Lookup(store, id) == SelectSeq(store, LAMBDA s : s.id = id)

\* del self._sessions[session_id]
Delete(store, id) == SelectSeq(store, LAMBDA s : s.id # id)

\* truthiness of a `dict | None` argument: None and {} are both falsy
Truthy(info) == Len(info) = 1 /\ info[1] # EmptyDict

\* faulty variant: the expiry check is left out
get_session_unexpiring(store, id, t) == Lookup(store, id)

\* SessionManager.get_session
get_session(store, id, t) ==
    LET found == Lookup(store, id)
    IN  IF found # <<>> /\ ~is_expired(found[1], t) THEN found ELSE Absent

\* faulty variant: the scan matches on the pin alone
get_session_by_pin_stale(store, pin, t) ==
    LET hits == SelectSeq(store, LAMBDA s : s.pin = pin)
    IN  IF hits # <<>> THEN <<hits[1]>> ELSE Absent

\* faulty variant: the scan keeps the last match
get_session_by_pin_newest(store, pin, t) ==
    LET hits == SelectSeq(store, LAMBDA s : s.pin = pin /\ ~is_expired(s, t))
    IN  IF hits # <<>> THEN <<hits[Len(hits)]>> ELSE Absent

\* SessionManager.get_session_by_pin: first match in insertion order
get_session_by_pin(store, pin, t) ==
    LET hits == SelectSeq(store, LAMBDA s : s.pin = pin /\ ~is_expired(s, t))
    IN  IF hits # <<>> THEN <<hits[1]>> ELSE Absent

\* faulty variant: pairing also moves the signaling state
MarkPaired_signalling(store, id, info, t) ==
    [i \in 1..Len(store) |->
        IF store[i].id = id
        THEN [store[i] EXCEPT !.paired = TRUE,
                              !.paired_at = t,
                              !.signaling_state = "connected",
                              !.device_info = IF Truthy(info) THEN info[1] ELSE @]
        ELSE store[i]]

\* faulty variant: pairing renews the session's lifetime
MarkPaired_renewing(store, id, info, t) ==
    [i \in 1..Len(store) |->
        IF store[i].id = id
        THEN [store[i] EXCEPT !.paired = TRUE,
                              !.paired_at = t,
                              !.expires_at = t + session_ttl,
                              !.device_info = IF Truthy(info) THEN info[1] ELSE @]
        ELSE store[i]]

\* the body of pair_session once the session has been found
MarkPaired(store, id, info, t) ==
    [i \in 1..Len(store) |->
        IF store[i].id = id
        THEN [store[i] EXCEPT !.paired = TRUE,
                              !.paired_at = t,
                              !.device_info = IF Truthy(info) THEN info[1] ELSE @]
        ELSE store[i]]

\* faulty variant: the session is marked before its expiry is tested
pair_session_unchecked(store, id, info, t) ==
    IF Lookup(store, id) = <<>>
    THEN [ok |-> FALSE, store |-> store]
    ELSE [ok |-> ~is_expired(Lookup(store, id)[1], t),
          store |-> MarkPaired(store, id, info, t)]

\* faulty variant: a session that is paired already is refused
pair_session_once(store, id, info, t) ==
    IF get_session(store, id, t) = Absent \/ get_session(store, id, t)[1].paired
    THEN [ok |-> FALSE, store |-> store]
    ELSE [ok |-> TRUE, store |-> MarkPaired(store, id, info, t)]

\* SessionManager.pair_session: the result and the dict afterwards
pair_session(store, id, info, t) ==
    IF get_session(store, id, t) = Absent
    THEN [ok |-> FALSE, store |-> store]
    ELSE [ok |-> TRUE, store |-> MarkPaired(store, id, info, t)]

\* faulty variant: the session is kept and only its pairing is cleared
unpair_session_clear_only(store, id) ==
    IF id \in Ids(store)
    THEN [ok |-> TRUE,
          store |-> [i \in 1..Len(store) |->
                        IF store[i].id = id
                        THEN [store[i] EXCEPT !.paired = FALSE, !.paired_at = Null]
                        ELSE store[i]]]
    ELSE [ok |-> FALSE, store |-> store]

\* SessionManager.unpair_session
unpair_session(store, id) ==
    IF id \in Ids(store)
    THEN [ok |-> TRUE, store |-> Delete(store, id)]
    ELSE [ok |-> FALSE, store |-> store]

\* faulty variant: the expiry filter is left out
get_all_sessions_unfiltered(store, t) == store

\* SessionManager.get_all_sessions
get_all_sessions(store, t) == SelectSeq(store, LAMBDA s : ~is_expired(s, t))

\* GET /v1/cast/sessions (main.py list_sessions): the views of the sessions
\* get_all_sessions returns
list_sessions(store, t) ==
    LET listed == get_all_sessions(store, t)
    IN  [i \in 1..Len(listed) |-> to_dict(listed[i], t)]

\* SessionManager.get_paired_sessions
get_paired_sessions(store, t) == SelectSeq(store, LAMBDA s : is_active(s, t))

\* faulty variant: start() creates a task whether or not one is running
start_unguarded(task, tasks) == [task |-> "running", tasks |-> tasks + 1]

\* SessionManager.start: _cleanup_task and the loop tasks afterwards
start(task, tasks) ==
    IF task = "none"
    THEN [task |-> "running", tasks |-> tasks + 1]
    ELSE [task |-> task, tasks |-> tasks]

\* SessionManager.stop: the task held in _cleanup_task is cancelled
stop(task, tasks) ==
    IF task # "none"
    THEN [task |-> "none", tasks |-> tasks - 1]
    ELSE [task |-> task, tasks |-> tasks]

\* faulty variant: `<=` in place of `<`
cleanup_expired_at_deadline(store, t) ==
    SelectSeq(store, LAMBDA s : ~(s.expires_at <= t))

\* faulty variant: paired sessions are spared
cleanup_expired_unpaired_only(store, t) ==
    SelectSeq(store, LAMBDA s : ~(s.expires_at < t /\ ~s.paired))

\* SessionManager._cleanup_expired: the dict after one reaper tick at t
cleanup_expired(store, t) == SelectSeq(store, LAMBDA s : ~(s.expires_at < t))

\* a result refers to sessions held in the dict: it is kept as their ids
IdsOf(result) == [i \in 1..Len(result) |-> result[i].id]

\* the record kept of the last call
Call(op, sid, pin, ok, ret, status) ==
    [op |-> op, sid |-> sid, pin |-> pin, ok |-> ok, ret |-> ret,
     status |-> status]

\* faulty variant: every draw yields the same token
token_urlsafe_fixed(n) == 1

\* secrets.token_urlsafe(16), 128 random bits: a draw differs from every
\* earlier draw, so the n-th draw is given the value n
token_urlsafe(n) == n

\* SessionManager.create_session: the dict after self._sessions[id] = session
create_session(store, id, pin, t) ==
    LET s == NewSession(id, pin, t, t + session_ttl)
    IN  IF id \in Ids(store)
        THEN [i \in 1..Len(store) |-> IF store[i].id = id THEN s ELSE store[i]]
        ELSE Append(store, s)

(***************************************************************************)
(* AudioBuffer (audio_relay.py).  A chunk is a bytes object: its content   *)
(* is the tag, its length in bytes is len.                                 *)
(***************************************************************************)
sample_rate == 16000
channels == 1
sample_width == 2
\* AudioBuffer(max_duration_seconds=30.0), the value AudioRelay uses
max_duration_seconds == 30

bytes_per_second == sample_rate * channels * sample_width
\* int(bytes_per_second * self.max_duration); exact for whole seconds
max_bytes == bytes_per_second * max_duration_seconds

ChunkTags == {"a", "b"}
\* the chunk sizes sent, in units: one and two units fit the buffer of
\* max_duration_seconds singly, three do not
ChunkUnits == {1, 2, 3}
ChunkLens == {k * ChunkUnitSeconds * bytes_per_second : k \in ChunkUnits}
Chunks == [tag : ChunkTags, len : ChunkLens]
\* the relay is keyed by session id; two ids are enough for two streams
StreamIds == {1, 2}

RECURSIVE TotalBytes(_)
\* sum(len(c) for c in self.chunks)
TotalBytes(chunks) ==
    IF chunks = <<>> THEN 0 ELSE Head(chunks).len + TotalBytes(Tail(chunks))

\* AudioBuffer.__init__
NewBuffer(t) == [chunks |-> <<>>, created_at |-> t]

RECURSIVE EvictOldest(_, _)
\* while total_bytes > max_bytes and self.chunks: self.chunks.pop(0)
EvictOldest(chunks, total) ==
    IF total > max_bytes /\ chunks # <<>>
    THEN EvictOldest(Tail(chunks), total - Head(chunks).len)
    ELSE chunks

\* faulty variant: no eviction
add_chunk_unbounded(buf, chunk) ==
    [buf EXCEPT !.chunks = Append(buf.chunks, chunk)]

RECURSIVE EvictNewest(_, _)
\* faulty variant of the eviction loop: pop() in place of pop(0)
EvictNewest(chunks, total) ==
    IF total > max_bytes /\ chunks # <<>>
    THEN EvictNewest(SubSeq(chunks, 1, Len(chunks) - 1),
                     total - chunks[Len(chunks)].len)
    ELSE chunks

add_chunk_drop_newest(buf, chunk) ==
    LET appended == Append(buf.chunks, chunk)
    IN  [buf EXCEPT !.chunks = EvictNewest(appended, TotalBytes(appended))]

\* faulty variant: the append overwrites what the buffer held
add_chunk_overwrite(buf, chunk) == [buf EXCEPT !.chunks = <<chunk>>]

\* faulty variant: once over the limit, everything older than the new chunk
\* is evicted
add_chunk_evict_all(buf, chunk) ==
    LET appended == Append(buf.chunks, chunk)
    IN  [buf EXCEPT !.chunks =
            IF TotalBytes(appended) <= max_bytes
            THEN appended
            ELSE IF chunk.len <= max_bytes THEN <<chunk>> ELSE <<>>]

\* AudioBuffer.add_chunk
add_chunk(buf, chunk) ==
    LET appended == Append(buf.chunks, chunk)
    IN  [buf EXCEPT !.chunks = EvictOldest(appended, TotalBytes(appended))]

\* AudioBuffer.get_audio_bytes; the joined bytes are kept as the chunks they
\* were joined from
get_audio_bytes(buf) == buf.chunks

\* AudioBuffer.get_duration_seconds; every chunk sent holds a whole number
\* of seconds
get_duration_seconds(buf) ==
    IF bytes_per_second > 0
    THEN TotalBytes(buf.chunks) \div bytes_per_second
    ELSE 0

\* AudioBuffer.to_wav_bytes: nothing for an empty buffer, else a header and
\* the audio
to_wav_bytes(buf) ==
    IF TotalBytes(get_audio_bytes(buf)) = 0
    THEN <<>>
    ELSE <<"RIFF">> \o get_audio_bytes(buf)

\* AudioBuffer.clear
clear(buf, t) == [chunks |-> <<>>, created_at |-> t]

\* dict assignment d[k] = v and d.pop(k, None)
Put(d, k, v) == [x \in DOMAIN d \cup {k} |-> IF x = k THEN v ELSE d[x]]
\* faulty variant: popping one key empties the dict
Pop_every(d, k) == [x \in {} |-> d[x]]
Pop(d, k) == [x \in DOMAIN d \ {k} |-> d[x]]

(***************************************************************************)
(* websocket_endpoint (main.py): the messages websocket.receive() returns, *)
(* the replies send_json sends, and what the handler does with one         *)
(* connection and one message.  The service has started: session_manager   *)
(* and audio_relay are set.                                                *)
(***************************************************************************)
\* the chunks binary frames carry: two lengths
FrameChunks ==
    {ch \in Chunks : ch.tag = "a" /\ ch.len <= 2 * ChunkUnitSeconds * bytes_per_second}

\* ASGI messages of inbound frames: a binary frame has the key "bytes", a
\* text frame the key "text"
Frames ==
    {[type |-> "websocket.receive", bytes |-> ch] : ch \in FrameChunks}
        \cup {[type |-> "websocket.receive", text |-> t] : t \in TextFrames}

\* a connection no client has opened yet.  state is the position of the
\* handler, code the close code it sent, out the replies its loop sent for
\* the frame it read last
NoConn == [state |-> "none", sid |-> 0, code |-> 0, out |-> <<>>]

\* json.loads on the payloads of TextFrames: the value, or JSONDecodeError
json_loads(text) ==
    CASE text = "{\"type\": \"offer\"}" ->
            [raises |-> FALSE, kind |-> "dict", items |-> {<<"type", "offer">>}]
      [] text = "[1]" ->
            [raises |-> FALSE, kind |-> "list", items |-> {}]
      [] OTHER ->
            [raises |-> TRUE, kind |-> "none", items |-> {}]

\* dict.get(key): the value, or None (written "None") when the key is missing
dict_get(items, key) ==
    IF \E p \in items : p[1] = key
    THEN (CHOOSE p \in items : p[1] = key)[2]
    ELSE "None"

\* faulty variant: the connection is accepted without the session lookup
connect_unvalidated(store, sid, t) ==
    [state |-> "open", sid |-> sid, code |-> 0, out |-> <<>>]

\* the head of websocket_endpoint: close(1008) when get_session is None,
\* accept() otherwise
connect(store, sid, t) ==
    IF get_session(store, sid, t) = Absent
    THEN [state |-> "closed", sid |-> sid, code |-> 1008, out |-> <<>>]
    ELSE [state |-> "open", sid |-> sid, code |-> 0, out |-> <<>>]

\* one pass of the loop body after receive() returned message: the replies
\* sent (out) and the connection afterwards.  json.loads or data.get raising
\* leaves the loop through `except Exception`, which closes with 1011.
on_message(conn, message) ==
    IF "bytes" \in DOMAIN message
    THEN [conn EXCEPT !.out = <<[type |-> "audio_ack",
                                 bytes |-> message.bytes.len]>>]
    ELSE IF "text" \in DOMAIN message
    THEN LET data == json_loads(message.text)
         IN  IF data.raises \/ data.kind # "dict"
             THEN [conn EXCEPT !.state = "closed", !.code = 1011, !.out = <<>>]
             ELSE [conn EXCEPT !.out =
                      <<[type |-> "ack",
                         message_type |-> dict_get(data.items, "type"),
                         timestamp |-> "now"]>>]
    ELSE [conn EXCEPT !.out = <<>>]

\* faulty variant: the end of one loop ends every loop of the same session
end_loop_of_session(cs, c, how) ==
    [d \in DOMAIN cs |->
        IF cs[d].state = "open" /\ cs[d].sid = cs[c].sid
        THEN [cs[d] EXCEPT !.state = how]
        ELSE cs[d]]

\* `break`: the loop of connection c ends and the endpoint returns
end_loop(cs, c, how) == [cs EXCEPT ![c].state = how]

(***************************************************************************)
(* CircuitBreaker and retry_with_backoff (common/resilience.py).           *)
(***************************************************************************)
\* time.time() at clock instant t: seconds since the epoch, never 0
time_time(t) == t + 1

\* CircuitBreaker(): the dataclass defaults of the fields with init=False
NewBreaker ==
    [state |-> "closed", failure_count |-> 0, success_count |-> 0,
     last_failure_time |-> Null]

\* faulty variant: a success leaves the failure count as it is
record_success_keeping_count(b) ==
    IF b.state = "half_open"
    THEN IF b.success_count + 1 >= success_threshold
         THEN [b EXCEPT !.state = "closed", !.success_count = 0]
         ELSE [b EXCEPT !.success_count = @ + 1]
    ELSE b

\* CircuitBreaker.record_success
record_success(b) ==
    IF b.state = "half_open"
    THEN IF b.success_count + 1 >= success_threshold
         THEN [b EXCEPT !.failure_count = 0,
                        !.state = "closed",
                        !.success_count = 0]
         ELSE [b EXCEPT !.failure_count = 0, !.success_count = @ + 1]
    ELSE [b EXCEPT !.failure_count = 0]

\* CircuitBreaker.record_failure at time.time() = t
record_failure(b, t) ==
    IF b.failure_count + 1 >= failure_threshold
    THEN [b EXCEPT !.failure_count = @ + 1,
                   !.last_failure_time = t,
                   !.state = "open"]
    ELSE [b EXCEPT !.failure_count = @ + 1, !.last_failure_time = t]

\* faulty variant: an open breaker lets the next request through at once
can_execute_ignoring_timeout(b, t) ==
    IF b.state = "open"
    THEN [ret |-> TRUE,
          breaker |-> [b EXCEPT !.state = "half_open", !.success_count = 0]]
    ELSE [ret |-> TRUE, breaker |-> b]

\* CircuitBreaker.can_execute at time.time() = t: the answer and the breaker
\* afterwards; `self.last_failure_time and ...` is false for None and for 0
can_execute(b, t) ==
    IF b.state = "closed"
    THEN [ret |-> TRUE, breaker |-> b]
    ELSE IF b.state = "open"
    THEN IF /\ b.last_failure_time # Null
            /\ b.last_failure_time # 0
            /\ t - b.last_failure_time >= timeout
         THEN [ret |-> TRUE,
               breaker |-> [b EXCEPT !.state = "half_open",
                                     !.success_count = 0]]
         ELSE [ret |-> FALSE, breaker |-> b]
    ELSE [ret |-> TRUE, breaker |-> b]

\* no retry_with_backoff call is running.  pc is the position of the call,
\* attempt the loop variable, outcome how the last call ended
NoRetry == [pc |-> "idle", attempt |-> 0, outcome |-> "none"]

\* the tally after a success was recorded on breaker b
TallySuccess(b, tl) ==
    [failures |-> 0,
     failed_at |-> tl.failed_at,
     clean |-> IF b.state = "half_open" /\ record_success(b).state = "half_open"
               THEN tl.clean + 1
               ELSE 0]

\* the tally after a failure was recorded at t
TallyFailure(tl, t) ==
    [failures |-> tl.failures + 1, failed_at |-> t, clean |-> 0]

\* the tally after can_execute answered on breaker b at t
TallyCheck(b, t, tl) ==
    IF can_execute(b, t).breaker.state # b.state
    THEN [tl EXCEPT !.clean = 0]
    ELSE tl

(***************************************************************************)
(* Initial state: SessionManager.__init__ and AudioRelay.__init__.         *)
(***************************************************************************)
Init ==
    /\ sessions = <<>>
    /\ next_id = 1
    /\ issued = {}
    /\ now = 0
    /\ cleanup_task = "none"
    /\ reaper_tasks = 0
    /\ wake_at = 0
    /\ last = Call("init", 0, "", TRUE, <<>>, 0)
    /\ reaped = {}
    /\ active_streams = <<>>
    /\ stream_locks = {}
    /\ received = <<>>
    /\ stopped = {}
    /\ conns = [c \in ConnIds |-> NoConn]
    /\ breaker = NewBreaker
    /\ retry = NoRetry
    /\ tally = [failures |-> 0, failed_at |-> Null, clean |-> 0]

(***************************************************************************)
(* The clock.                                                              *)
(***************************************************************************)
Tick ==
    /\ now < MaxTime
    /\ now' = now + 1
    /\ UNCHANGED <<sessions, next_id, issued, cleanup_task, reaper_tasks, wake_at, last, reaped>>
    /\ UNCHANGED audioVars
    /\ UNCHANGED channelVars
    /\ UNCHANGED resilienceVars

(***************************************************************************)
(* SessionManager calls.                                                   *)
(***************************************************************************)
\* create_session(); the id is the next token_urlsafe draw.  Sessions are
\* created only while their expiry fits the bounded clock.
CreateSession(pin) ==
    /\ next_id \in SessionIds
    /\ now + session_ttl < MaxTime
    /\ sessions' = create_session(sessions, token_urlsafe(next_id), pin, now)
    /\ next_id' = next_id + 1
    /\ issued' = issued \cup {token_urlsafe(next_id)}
    /\ last' = Call("create", token_urlsafe(next_id), pin, TRUE,
                    <<token_urlsafe(next_id)>>, 0)
    /\ UNCHANGED <<now, cleanup_task, reaper_tasks, wake_at, reaped>>
    /\ UNCHANGED audioVars
    /\ UNCHANGED channelVars
    /\ UNCHANGED resilienceVars

GetSession(id) ==
    /\ last' = Call("get", id, "", get_session(sessions, id, now) # Absent,
                    IdsOf(get_session(sessions, id, now)), 0)
    /\ UNCHANGED <<sessions, next_id, issued, now, cleanup_task, reaper_tasks, wake_at, reaped>>
    /\ UNCHANGED audioVars
    /\ UNCHANGED channelVars
    /\ UNCHANGED resilienceVars

GetSessionByPin(pin) ==
    /\ last' = Call("get_by_pin", 0, pin,
                    get_session_by_pin(sessions, pin, now) # Absent,
                    IdsOf(get_session_by_pin(sessions, pin, now)), 0)
    /\ UNCHANGED <<sessions, next_id, issued, now, cleanup_task, reaper_tasks, wake_at, reaped>>
    /\ UNCHANGED audioVars
    /\ UNCHANGED channelVars
    /\ UNCHANGED resilienceVars

\* pair_session(id, info); the record keeps the id when the session the
\* call found was paired already
PairSession(id, info) ==
    /\ sessions' = pair_session(sessions, id, info, now).store
    /\ last' = Call("pair", id, "", pair_session(sessions, id, info, now).ok,
                    IdsOf(SelectSeq(get_session(sessions, id, now),
                                    LAMBDA s : s.paired)), 0)
    /\ UNCHANGED <<next_id, issued, now, cleanup_task, reaper_tasks, wake_at, reaped>>
    /\ UNCHANGED audioVars
    /\ UNCHANGED channelVars
    /\ UNCHANGED resilienceVars

\* an unpair that also stops the session's audio stream
UnpairSession_stopping_stream(id) ==
    /\ sessions' = unpair_session(sessions, id).store
    /\ last' = Call("unpair", id, "", unpair_session(sessions, id).ok, <<>>, 0)
    /\ active_streams' = Pop(active_streams, id)
    /\ stream_locks' = stream_locks \ {id}
    /\ received' = Pop(received, id)
    /\ UNCHANGED stopped
    /\ UNCHANGED <<next_id, issued, now, cleanup_task, reaper_tasks, wake_at, reaped>>
    /\ UNCHANGED channelVars
    /\ UNCHANGED resilienceVars

\* a call of SessionManager.unpair_session
UnpairSession(id) ==
    /\ sessions' = unpair_session(sessions, id).store
    /\ last' = Call("unpair", id, "", unpair_session(sessions, id).ok, <<>>, 0)
    /\ UNCHANGED <<next_id, issued, now, cleanup_task, reaper_tasks, wake_at, reaped>>
    /\ UNCHANGED audioVars
    /\ UNCHANGED channelVars
    /\ UNCHANGED resilienceVars

GetAllSessions ==
    /\ last' = Call("get_all", 0, "", TRUE,
                    IdsOf(get_all_sessions(sessions, now)), 0)
    /\ UNCHANGED <<sessions, next_id, issued, now, cleanup_task, reaper_tasks, wake_at, reaped>>
    /\ UNCHANGED audioVars
    /\ UNCHANGED channelVars
    /\ UNCHANGED resilienceVars

GetPairedSessions ==
    /\ last' = Call("get_paired", 0, "", TRUE,
                    IdsOf(get_paired_sessions(sessions, now)), 0)
    /\ UNCHANGED <<sessions, next_id, issued, now, cleanup_task, reaper_tasks, wake_at, reaped>>
    /\ UNCHANGED audioVars
    /\ UNCHANGED channelVars
    /\ UNCHANGED resilienceVars

(***************************************************************************)
(* The reaper: start(), stop() and one pass of _cleanup_loop.  The task    *)
(* sleeps cleanup_interval, runs _cleanup_expired and sleeps again.        *)
(***************************************************************************)
\* start(); the record keeps whether the call created a task
StartManager ==
    /\ cleanup_task' = start(cleanup_task, reaper_tasks).task
    /\ reaper_tasks' = start(cleanup_task, reaper_tasks).tasks
    /\ wake_at' = IF cleanup_task = "none"
                  THEN Min(now + cleanup_interval, MaxTime)
                  ELSE wake_at
    /\ last' = Call("start", 0, "", cleanup_task = "none", <<>>, 0)
    /\ UNCHANGED <<sessions, next_id, issued, now, reaped>>
    /\ UNCHANGED audioVars
    /\ UNCHANGED channelVars
    /\ UNCHANGED resilienceVars

\* stop(); the cancelled task ends at its sleep, without another pass, while
\* stop() awaits it.  The record keeps whether the call cancelled a task.
StopManager ==
    /\ cleanup_task' = stop(cleanup_task, reaper_tasks).task
    /\ reaper_tasks' = stop(cleanup_task, reaper_tasks).tasks
    /\ last' = Call("stop", 0, "", cleanup_task # "none", <<>>, 0)
    /\ UNCHANGED <<sessions, next_id, issued, now, wake_at, reaped>>
    /\ UNCHANGED audioVars
    /\ UNCHANGED channelVars
    /\ UNCHANGED resilienceVars

\* one pass of a _cleanup_loop task whose sleep has ended
CleanupTick ==
    /\ reaper_tasks > 0
    /\ now >= wake_at
    /\ sessions' = cleanup_expired(sessions, now)
    /\ reaped' = reaped \cup {[id |-> s.id, paired |-> s.paired] :
                                  s \in Range(sessions) \ Range(sessions')}
    /\ wake_at' = Min(now + cleanup_interval, MaxTime)
    /\ last' = Call("cleanup", 0, "", TRUE,
                    IdsOf(SelectSeq(sessions, LAMBDA s : s \notin Range(sessions'))),
                    0)
    /\ UNCHANGED <<next_id, issued, now, cleanup_task, reaper_tasks>>
    /\ UNCHANGED audioVars
    /\ UNCHANGED channelVars
    /\ UNCHANGED resilienceVars

(***************************************************************************)
(* POST /v1/cast/session/pair (main.py pair_session): look the PIN up,     *)
(* then pair the session found.  The two calls read the clock separately,  *)
(* so the second may see a later instant than the first.                   *)
(***************************************************************************)
PairEndpoint(pin, info) ==
    LET found == get_session_by_pin(sessions, pin, now)
    IN  IF found = Absent
        THEN /\ last' = Call("redeem", 0, pin, FALSE, <<>>, 404)
             /\ UNCHANGED <<sessions, next_id, issued, now, cleanup_task, reaper_tasks, wake_at, reaped>>
             /\ UNCHANGED audioVars
             /\ UNCHANGED channelVars
             /\ UNCHANGED resilienceVars
        ELSE \E t \in {now, Min(now + 1, MaxTime)} :
                LET r == pair_session(sessions, found[1].id, info, t)
                IN  /\ now' = t
                    /\ sessions' = r.store
                    /\ last' = Call("redeem", found[1].id, pin, r.ok, <<>>,
                                    IF r.ok THEN 200 ELSE 500)
                    /\ UNCHANGED <<next_id, issued, cleanup_task, reaper_tasks, wake_at, reaped>>
                    /\ UNCHANGED audioVars
                    /\ UNCHANGED channelVars
                    /\ UNCHANGED resilienceVars

(***************************************************************************)
(* DELETE /v1/cast/sessions (main.py reset_sessions): the handler calls    *)
(* session_manager.reset_sessions().  SessionManager defines no attribute  *)
(* of that name, so the call raises AttributeError before anything is      *)
(* removed and the request is answered 500.                                *)
(***************************************************************************)
ResetEndpoint ==
    /\ last' = Call("reset", 0, "", FALSE, <<>>, 500)
    /\ UNCHANGED <<sessions, next_id, issued, now, cleanup_task, reaper_tasks, wake_at, reaped>>
    /\ UNCHANGED audioVars
    /\ UNCHANGED channelVars
    /\ UNCHANGED resilienceVars

(***************************************************************************)
(* AudioRelay calls.  add_audio_chunk takes the stream's lock and appends  *)
(* without suspending while it holds it, so the call is one step.          *)
(***************************************************************************)
\* a start that always installs a new buffer
start_stream_replacing(streams, locks, sid, t) ==
    [ret |-> NewBuffer(t),
     streams |-> Put(streams, sid, NewBuffer(t)),
     locks |-> locks \cup {sid}]

\* a start that creates the buffer without its lock
start_stream_lockless(streams, locks, sid, t) ==
    IF sid \notin DOMAIN streams
    THEN [ret |-> NewBuffer(t),
          streams |-> Put(streams, sid, NewBuffer(t)),
          locks |-> locks]
    ELSE [ret |-> streams[sid], streams |-> streams, locks |-> locks]

\* AudioRelay.start_stream: the buffer returned, and the relay afterwards
start_stream(streams, locks, sid, t) ==
    IF sid \notin DOMAIN streams
    THEN [ret |-> NewBuffer(t),
          streams |-> Put(streams, sid, NewBuffer(t)),
          locks |-> locks \cup {sid}]
    ELSE [ret |-> streams[sid], streams |-> streams, locks |-> locks]

\* a stop that hands the buffer back but keeps the stream
stop_stream_keeping(streams, locks, sid) ==
    [ret |-> IF sid \in DOMAIN streams THEN <<streams[sid]>> ELSE <<>>,
     streams |-> streams,
     locks |-> locks \ {sid}]

\* AudioRelay.stop_stream: <<buffer>> or <<>> for None, and the relay
\* afterwards
stop_stream(streams, locks, sid) ==
    [ret |-> IF sid \in DOMAIN streams THEN <<streams[sid]>> ELSE <<>>,
     streams |-> Pop(streams, sid),
     locks |-> locks \ {sid}]

\* AudioRelay.get_active_streams
get_active_streams(streams) == DOMAIN streams

\* a clear that stops the stream
clear_stream_stopping(streams, sid, t) ==
    [ret |-> sid \in DOMAIN streams, streams |-> Pop(streams, sid)]

\* AudioRelay.clear_stream: an AudioBuffer defines neither __len__ nor
\* __bool__, so "if buffer" is true of every buffer, empty or not
clear_stream(streams, sid, t) ==
    IF sid \in DOMAIN streams
    THEN [ret |-> TRUE, streams |-> Put(streams, sid, clear(streams[sid], t))]
    ELSE [ret |-> FALSE, streams |-> streams]

\* a call of AudioRelay.start_stream; last.ok tells whether the stream was
\* created by this call
StartStream(sid) ==
    LET r == start_stream(active_streams, stream_locks, sid, now) IN
    /\ active_streams' = r.streams
    /\ stream_locks' = r.locks
    /\ received' = IF sid \in DOMAIN active_streams
                   THEN received
                   ELSE Put(received, sid, <<>>)
    /\ UNCHANGED stopped
    /\ last' = Call("start_stream", sid, "", sid \notin DOMAIN active_streams,
                    <<r.ret>>, 0)
    /\ UNCHANGED <<sessions, next_id, issued, now, cleanup_task, reaper_tasks,
                   wake_at, reaped>>
    /\ UNCHANGED channelVars
    /\ UNCHANGED resilienceVars

\* AudioRelay.stop_stream called: what the call does to the relay
StopStreamCall(sid) ==
    LET r == stop_stream(active_streams, stream_locks, sid) IN
    /\ active_streams' = r.streams
    /\ stream_locks' = r.locks
    /\ received' = [o \in DOMAIN r.streams |-> received[o]]
    /\ last' = Call("stop_stream", sid, "", r.ret # <<>>, r.ret, 0)
    /\ UNCHANGED <<sessions, next_id, issued, now, cleanup_task, reaper_tasks,
                   wake_at, reaped>>
    /\ UNCHANGED channelVars
    /\ UNCHANGED resilienceVars

\* a call of AudioRelay.stop_stream
StopStream(sid) ==
    /\ StopStreamCall(sid)
    /\ UNCHANGED stopped

\* a call of AudioRelay.stop_stream, remembered when it removed a stream
StopStreamNoted(sid) ==
    /\ StopStreamCall(sid)
    /\ stopped' = IF sid \in DOMAIN active_streams
                  THEN stopped \cup {sid}
                  ELSE stopped

\* a relay that opens a stream for a chunk that has none
add_audio_chunk_autostart(sid, chunk) ==
    IF sid \in DOMAIN active_streams /\ sid \in stream_locks
    THEN /\ Len(received[sid]) < MaxReceived
         /\ active_streams' =
               Put(active_streams, sid, add_chunk(active_streams[sid], chunk))
         /\ received' = Put(received, sid, Append(received[sid], chunk))
         /\ UNCHANGED <<stream_locks, stopped>>
    ELSE /\ active_streams' =
               Put(active_streams, sid, add_chunk(NewBuffer(now), chunk))
         /\ received' = Put(received, sid, <<chunk>>)
         /\ stream_locks' = stream_locks \cup {sid}
         /\ UNCHANGED stopped

\* AudioRelay.add_audio_chunk, its effect on the relay; a stream accepts at
\* most MaxReceived chunks between two clears
add_audio_chunk(sid, chunk) ==
    IF sid \in DOMAIN active_streams /\ sid \in stream_locks
    THEN /\ Len(received[sid]) < MaxReceived
         /\ active_streams' =
               Put(active_streams, sid, add_chunk(active_streams[sid], chunk))
         /\ received' = Put(received, sid, Append(received[sid], chunk))
         /\ UNCHANGED <<stream_locks, stopped>>
    ELSE UNCHANGED audioVars

\* a call of AudioRelay.add_audio_chunk, which returns None; last.ok tells
\* whether the call found a stream
AddAudioChunk(sid, chunk) ==
    /\ add_audio_chunk(sid, chunk)
    /\ last' = Call("add_audio_chunk", sid, "", sid \in DOMAIN active_streams,
                    <<>>, 0)
    /\ UNCHANGED <<sessions, next_id, issued, now, cleanup_task, reaper_tasks,
                   wake_at, reaped>>
    /\ UNCHANGED channelVars
    /\ UNCHANGED resilienceVars

\* a call of AudioRelay.clear_stream
ClearStream(sid) ==
    LET r == clear_stream(active_streams, sid, now) IN
    /\ active_streams' = r.streams
    /\ received' = IF r.ret THEN Put(received, sid, <<>>) ELSE received
    /\ last' = Call("clear_stream", sid, "", r.ret, <<>>, 0)
    /\ UNCHANGED <<stream_locks, stopped>>
    /\ UNCHANGED <<sessions, next_id, issued, now, cleanup_task, reaper_tasks,
                   wake_at, reaped>>
    /\ UNCHANGED channelVars
    /\ UNCHANGED resilienceVars

Next ==
    \/ Tick
    \/ \E pin \in Pins : CreateSession(pin)
    \/ \E id \in SessionIds : GetSession(id)
    \/ \E pin \in Pins : GetSessionByPin(pin)
    \/ \E id \in SessionIds, info \in DeviceInfoArgs : PairSession(id, info)
    \/ \E id \in SessionIds : UnpairSession(id)
    \/ GetAllSessions
    \/ GetPairedSessions
    \/ StartManager
    \/ StopManager
    \/ CleanupTick
    \/ \E pin \in Pins, info \in DeviceInfoArgs : PairEndpoint(pin, info)
    \/ ResetEndpoint

Spec == Init /\ [][Next]_vars

\* the clock keeps running, and the event loop resumes the reaper once its
\* sleep has elapsed
LiveSpec == Spec /\ WF_vars(Tick) /\ WF_vars(CleanupTick)

AudioNext ==
    \/ \E sid \in StreamIds : StartStream(sid)
    \/ \E sid \in StreamIds : StopStream(sid)
    \/ \E sid \in StreamIds, chunk \in Chunks : AddAudioChunk(sid, chunk)
    \/ \E sid \in StreamIds : ClearStream(sid)

AudioSpec == Init /\ [][AudioNext]_vars

(***************************************************************************)
(* websocket_endpoint.  Between receive() returning and the reply being    *)
(* sent the handler does not suspend on anything another handler could     *)
(* change, so one pass of its loop is one step.                            *)
(***************************************************************************)
\* a client connects to /v1/cast/ws/{sid}
Connect(c, sid) ==
    /\ conns[c].state = "none"
    /\ conns' = [conns EXCEPT ![c] = connect(sessions, sid, now)]
    /\ UNCHANGED sessionVars
    /\ UNCHANGED resilienceVars
    /\ UNCHANGED audioVars

\* receive() returns an inbound frame and the loop body handles it
ReceiveFrame(c, message) ==
    /\ conns[c].state = "open"
    /\ IF "bytes" \in DOMAIN message
       THEN add_audio_chunk(conns[c].sid, message.bytes)
       ELSE UNCHANGED audioVars
    /\ conns' = [conns EXCEPT ![c] = on_message(conns[c], message)]
    /\ UNCHANGED sessionVars
    /\ UNCHANGED resilienceVars

\* the client closes: receive() returns the disconnect message, which has
\* neither key, and the next receive() raises
ClientDisconnects(c) ==
    /\ conns[c].state = "open"
    /\ conns' = end_loop(conns, c, "disconnected")
    /\ UNCHANGED sessionVars
    /\ UNCHANGED resilienceVars
    /\ UNCHANGED audioVars

\* receive() raises: the transport failed
ReceiveFails(c) ==
    /\ conns[c].state = "open"
    /\ conns' = end_loop(conns, c, "failed")
    /\ UNCHANGED sessionVars
    /\ UNCHANGED resilienceVars
    /\ UNCHANGED audioVars

\* the channel with one session behind it: the session is created, paired,
\* expires or is removed, and its audio stream is started once, while
\* clients connect with its id or with an unknown one
ChannelNext ==
    \/ Tick
    \/ (next_id = ChannelSession /\ CreateSession("000000"))
    \/ PairSession(ChannelSession, <<Pixel>>)
    \/ UnpairSession(ChannelSession)
    \/ (ChannelSession \notin DOMAIN active_streams
           /\ StartStream(ChannelSession))
    \/ \E c \in ConnIds, sid \in SessionIds : Connect(c, sid)
    \/ \E c \in ConnIds, message \in Frames : ReceiveFrame(c, message)
    \/ \E c \in ConnIds : ClientDisconnects(c)
    \/ \E c \in ConnIds : ReceiveFails(c)

ChannelSpec == Init /\ [][ChannelNext]_vars

\* the chunk sent where one size is enough
OneChunk == {ch \in FrameChunks : ch.len = ChunkUnitSeconds * bytes_per_second}

\* the session manager and the audio relay side by side, as the service
\* holds them: one session is created, paired, unpaired, looked up and
\* reaped while the stream of its id is started, fed, cleared and stopped
CastNext ==
    \/ Tick
    \/ (next_id = ChannelSession /\ CreateSession("000000"))
    \/ GetSession(ChannelSession)
    \/ PairSession(ChannelSession, <<Pixel>>)
    \/ UnpairSession(ChannelSession)
    \/ StartManager
    \/ CleanupTick
    \/ StartStream(ChannelSession)
    \/ StopStreamNoted(ChannelSession)
    \/ \E chunk \in OneChunk : AddAudioChunk(ChannelSession, chunk)
    \/ ClearStream(ChannelSession)

CastSpec == Init /\ [][CastNext]_vars

(***************************************************************************)
(* One AudioBuffer on its own: constructed empty, then add_chunk is called *)
(* on it up to MaxAdds times with chunks of every size.  The buffer is     *)
(* kept under BufferId, and the chunks it was given in received.           *)
(***************************************************************************)
BufferId == 1

\* AudioBuffer()
BufferInit ==
    /\ sessions = <<>>
    /\ next_id = 1
    /\ issued = {}
    /\ now = 0
    /\ cleanup_task = "none"
    /\ reaper_tasks = 0
    /\ wake_at = 0
    /\ last = Call("init", 0, "", TRUE, <<>>, 0)
    /\ reaped = {}
    /\ active_streams = [b \in {BufferId} |-> NewBuffer(now)]
    /\ stream_locks = {BufferId}
    /\ received = [b \in {BufferId} |-> <<>>]
    /\ stopped = {}
    /\ conns = [c \in ConnIds |-> NoConn]
    /\ breaker = NewBreaker
    /\ retry = NoRetry
    /\ tally = [failures |-> 0, failed_at |-> Null, clean |-> 0]

\* a call of AudioBuffer.add_chunk
BufferAdd(chunk) ==
    /\ Len(received[BufferId]) < MaxAdds
    /\ active_streams' = Put(active_streams, BufferId,
                             add_chunk(active_streams[BufferId], chunk))
    /\ received' = Put(received, BufferId, Append(received[BufferId], chunk))
    /\ last' = Call("add_chunk", BufferId, "", TRUE, <<>>, 0)
    /\ UNCHANGED <<sessions, next_id, issued, now, cleanup_task, reaper_tasks,
                   wake_at, reaped>>
    /\ UNCHANGED <<stream_locks, stopped>>
    /\ UNCHANGED channelVars
    /\ UNCHANGED resilienceVars

BufferNext == \E chunk \in Chunks : BufferAdd(chunk)

BufferSpec == BufferInit /\ [][BufferNext]_vars

(***************************************************************************)
(* The circuit breaker of one connector.  Its three methods are called     *)
(* directly, and by one retry_with_backoff call at a time, which suspends  *)
(* while the wrapped function runs and while it sleeps between attempts;   *)
(* the clock advances meanwhile.                                           *)
(***************************************************************************)
\* a call of CircuitBreaker.record_success
RecordSuccess ==
    /\ breaker' = record_success(breaker)
    /\ tally' = TallySuccess(breaker, tally)
    /\ last' = Call("record_success", 0, "", TRUE, <<>>, 0)
    /\ UNCHANGED <<sessions, next_id, issued, now, cleanup_task, reaper_tasks,
                   wake_at, reaped>>
    /\ UNCHANGED <<retry, audioVars, channelVars>>

\* a call of CircuitBreaker.record_failure
RecordFailure ==
    /\ breaker.failure_count < MaxFailureCount
    /\ breaker' = record_failure(breaker, time_time(now))
    /\ tally' = TallyFailure(tally, time_time(now))
    /\ last' = Call("record_failure", 0, "", TRUE, <<>>, 0)
    /\ UNCHANGED <<sessions, next_id, issued, now, cleanup_task, reaper_tasks,
                   wake_at, reaped>>
    /\ UNCHANGED <<retry, audioVars, channelVars>>

\* a call of CircuitBreaker.can_execute; last.ok is the answer
CanExecute ==
    LET r == can_execute(breaker, time_time(now)) IN
    /\ breaker' = r.breaker
    /\ tally' = TallyCheck(breaker, time_time(now), tally)
    /\ last' = Call("can_execute", 0, "", r.ret, <<>>, 0)
    /\ UNCHANGED <<sessions, next_id, issued, now, cleanup_task, reaper_tasks,
                   wake_at, reaped>>
    /\ UNCHANGED <<retry, audioVars, channelVars>>

\* retry_with_backoff is called, or wakes from its sleep: the head of one
\* pass of its loop, up to the call of the wrapped function
RetryAttempt ==
    LET r == can_execute(breaker, time_time(now)) IN
    /\ retry.pc \in {"idle", "sleeping"}
    /\ breaker' = r.breaker
    /\ tally' = TallyCheck(breaker, time_time(now), tally)
    /\ retry' = IF r.ret
                THEN [pc |-> "calling",
                      attempt |-> IF retry.pc = "idle" THEN 0 ELSE retry.attempt,
                      outcome |-> "none"]
                ELSE [pc |-> "idle", attempt |-> 0, outcome |-> "refused"]
    /\ last' = Call("retry_attempt", 0, "", r.ret, <<>>, 0)
    /\ UNCHANGED <<sessions, next_id, issued, now, cleanup_task, reaper_tasks,
                   wake_at, reaped>>
    /\ UNCHANGED <<audioVars, channelVars>>

\* the wrapped function returns: the success is recorded and the call ends
FuncReturns ==
    /\ retry.pc = "calling"
    /\ breaker' = record_success(breaker)
    /\ tally' = TallySuccess(breaker, tally)
    /\ retry' = [pc |-> "idle", attempt |-> 0, outcome |-> "returned"]
    /\ last' = Call("func_returns", 0, "", TRUE, <<>>, 0)
    /\ UNCHANGED <<sessions, next_id, issued, now, cleanup_task, reaper_tasks,
                   wake_at, reaped>>
    /\ UNCHANGED <<audioVars, channelVars>>

\* the wrapped function raises: the failure is recorded, and the call sleeps
\* before its next attempt or, after the last one, raises
FuncRaises ==
    /\ retry.pc = "calling"
    /\ breaker.failure_count < MaxFailureCount
    /\ breaker' = record_failure(breaker, time_time(now))
    /\ tally' = TallyFailure(tally, time_time(now))
    /\ retry' = IF retry.attempt < max_attempts - 1
                THEN [pc |-> "sleeping",
                      attempt |-> retry.attempt + 1,
                      outcome |-> "none"]
                ELSE [pc |-> "idle", attempt |-> 0, outcome |-> "raised"]
    /\ last' = Call("func_raises", 0, "", FALSE, <<>>, 0)
    /\ UNCHANGED <<sessions, next_id, issued, now, cleanup_task, reaper_tasks,
                   wake_at, reaped>>
    /\ UNCHANGED <<audioVars, channelVars>>

BreakerNext ==
    \/ Tick
    \/ RecordSuccess
    \/ RecordFailure
    \/ CanExecute
    \/ RetryAttempt
    \/ FuncReturns
    \/ FuncRaises

BreakerSpec == Init /\ [][BreakerNext]_vars

(***************************************************************************)
(* Vocabulary of the properties, stated on the data and not through the    *)
(* operators above.                                                        *)
(***************************************************************************)
\* the sessions held in the dict, reaped or not
Held == Range(sessions)

\* Session.signaling_state: the values its declaration names, in order
SignalingStates == <<"new", "connecting", "connected", "closed">>

\* b is a or comes after a in SignalingStates
Forward(a, b) ==
    \E i, j \in 1..Len(SignalingStates) :
       /\ SignalingStates[i] = a
       /\ SignalingStates[j] = b
       /\ i <= j

\* the expiry instant of s has passed at t
PastExpiry(s, t) == t > s.expires_at

\* the last k elements of seq
LastK(seq, k) == SubSeq(seq, Len(seq) - k + 1, Len(seq))

IsSuffix(a, b) ==
    /\ Len(a) <= Len(b)
    /\ a = SubSeq(b, Len(b) - Len(a) + 1, Len(b))

(***************************************************************************)
(* C1.  As stated: get(id) returns the session at the instant it was       *)
(* created and returns absent at every instant with now >= expires_at,     *)
(* reaper or no reaper.                                                    *)
(***************************************************************************)
C1_GetAbsentFromExpiresAt ==
    \A s \in Held :
        /\ now = s.created_at => get_session(sessions, s.id, now) = <<s>>
        /\ now >= s.expires_at => get_session(sessions, s.id, now) = Absent

\* C1 as amended: get(id) returns the session at the instant it was created
\* and up to and including expires_at, and returns absent at every instant
\* with now > expires_at, whether or not the reaper has run or is started.
C1_GetAbsentAfterExpiresAt ==
    \A s \in Held :
        /\ now = s.created_at => get_session(sessions, s.id, now) = <<s>>
        /\ now = s.expires_at => get_session(sessions, s.id, now) = <<s>>
        /\ now > s.expires_at => get_session(sessions, s.id, now) = Absent

\* get(id) answered absent for a session that is past its expiry and still
\* in the dict of a manager whose reaper was never started
C1_Witness ==
    /\ last.op = "get" /\ ~last.ok
    /\ cleanup_task = "none" /\ reaped = {}
    /\ \E s \in Held : s.id = last.sid /\ now > s.expires_at

(***************************************************************************)
(* C2.  get_by_pin(pin) never returns a session whose expiry has passed,   *)
(* even while the dict still holds it, and what it returns is a session of *)
(* the dict with exactly the requested pin.                                *)
(***************************************************************************)
C2_GetByPinLiveAndMatching ==
    \A pin \in Pins :
        LET r == get_session_by_pin(sessions, pin, now)
        IN  r # Absent =>
                /\ r[1] \in Held
                /\ r[1].pin = pin
                /\ ~PastExpiry(r[1], now)

\* a lookup by pin answered absent although the dict still holds a
\* session with that pin, past its expiry
C2_Witness ==
    /\ last.op = "get_by_pin" /\ ~last.ok
    /\ \E s \in Held : s.pin = last.pin /\ PastExpiry(s, now)

(***************************************************************************)
(* C3.  The PIN is single-use: a redemption (the pairing endpoint) whose   *)
(* lookup finds a session that is already paired fails and leaves the      *)
(* session as it is.                                                       *)
(***************************************************************************)
C3_PinSingleUse ==
    [][\A pin \in Pins, info \in DeviceInfoArgs :
          LET found == get_session_by_pin(sessions, pin, now)
          IN  (PairEndpoint(pin, info) /\ found # Absent /\ found[1].paired)
                  => (last'.status # 200 /\ sessions' = sessions)]_vars

(***************************************************************************)
(* C4.  paired_at is null until the first successful pair(), and once it   *)
(* is non-null no later step changes or clears it while the session is in  *)
(* the dict.                                                               *)
(***************************************************************************)
C4_PairedAtSetOnce ==
    [][\A t \in Range(sessions') :
          /\ ~t.paired => t.paired_at = Null
          /\ \A s \in Held :
                (s.id = t.id /\ s.paired_at # Null) => t.paired_at = s.paired_at]_vars

(***************************************************************************)
(* C5.  pair(id, device_info) returns false and changes nothing whenever   *)
(* get(id) is absent: unknown or removed id, or a session past its expiry  *)
(* that the dict still holds.                                              *)
(***************************************************************************)
C5_PairAbsentNoMutation ==
    [][\A id \in SessionIds, info \in DeviceInfoArgs :
          (PairSession(id, info) /\ get_session(sessions, id, now) = Absent)
              => (~last'.ok /\ sessions' = sessions)]_vars

\* pair() answered false for a session past its expiry that is still in
\* the dict, unpaired
C5_Witness ==
    /\ last.op = "pair" /\ ~last.ok
    /\ \E s \in Held : s.id = last.sid /\ PastExpiry(s, now) /\ ~s.paired

(***************************************************************************)
(* C6.  One reaper tick removes every session whose expires_at has passed  *)
(* and no other: a session get(id) still returns at the tick's clock       *)
(* reading stays in the dict unchanged.                                    *)
(***************************************************************************)
C6_TickRemovesExactlyExpired ==
    [][CleanupTick =>
          \A s \in Held :
              /\ s.expires_at < now => s.id \notin Ids(sessions')
              /\ get_session(sessions, s.id, now) # Absent
                    => s \in Range(sessions')]_vars

\* a tick has removed a session and left another, which is at its
\* expiry instant, in the dict
C6_Witness ==
    /\ last.op = "cleanup" /\ last.ret # <<>>
    /\ \E s \in Held : now = s.expires_at

(***************************************************************************)
(* C7.  Reaper ticks interleave with the calls in any order: the dict      *)
(* always holds whole sessions, one per id; a pair(id) returns true only   *)
(* for a session that was live at its lookup and is still held, and        *)
(* otherwise returns false leaving the dict as it was; a session the       *)
(* reaper removed never reappears.                                         *)
(***************************************************************************)
C7_ReaperRaceSafe ==
    [][/\ Cardinality(Ids(sessions')) = Len(sessions')
       /\ \A id \in SessionIds, info \in DeviceInfoArgs :
             PairSession(id, info) =>
                IF last'.ok
                THEN /\ \E s \in Held : s.id = id /\ ~PastExpiry(s, now)
                     /\ id \in Ids(sessions')
                ELSE sessions' = sessions
       /\ \A r \in reaped' : r.id \notin Ids(sessions')]_vars

\* a pair() that lost the race: it answered false for a session the
\* reaper had already removed
C7_Witness ==
    /\ last.op = "pair" /\ ~last.ok
    /\ \E r \in reaped : r.id = last.sid

(***************************************************************************)
(* C8.  While the reaper stays started and the clock keeps running, every  *)
(* session held in the dict, paired or not, is eventually removed from     *)
(* the dict itself.                                                        *)
(***************************************************************************)
C8_StaleSessionsReaped ==
    (<>[](cleanup_task = "running")) =>
        \A id \in SessionIds :
            [](id \in Ids(sessions) => <>(id \notin Ids(sessions)))

\* the reaper has removed a paired session and the dict is empty again
C8_Witness ==
    /\ cleanup_task = "running"
    /\ sessions = <<>>
    /\ \E r \in reaped : r.paired

(***************************************************************************)
(* C9.  After any sequence of add_chunk and clear calls every buffer holds *)
(* at most max_duration * sample_rate * channels * sample_width bytes, and *)
(* an append leaves a suffix of the old chunks followed by the new one:    *)
(* eviction takes whole chunks from the head only.                         *)
(***************************************************************************)
C9_BufferWithinCapacity ==
    [][\A sid \in DOMAIN active_streams' :
          /\ TotalBytes(active_streams'[sid].chunks)
                <= max_duration_seconds * sample_rate * channels * sample_width
          /\ \A chunk \in Chunks :
                (sid \in DOMAIN active_streams /\ AddAudioChunk(sid, chunk))
                    => IsSuffix(active_streams'[sid].chunks,
                                Append(active_streams[sid].chunks, chunk))]_vars

\* a stream has been sent more than the capacity and has kept its
\* newest chunk, after the oldest were evicted
C9_Witness ==
    \E sid \in DOMAIN active_streams :
        /\ TotalBytes(received[sid]) > max_bytes
        /\ active_streams[sid].chunks # <<>>
        /\ Len(active_streams[sid].chunks) < Len(received[sid])

(***************************************************************************)
(* C10.  The chunks of a session's buffer are always a contiguous suffix,  *)
(* in receive order, of the chunks sent to that session's stream since it  *)
(* was started or last cleared.                                            *)
(***************************************************************************)
C10_BufferIsSuffixOfReceived ==
    \A sid \in DOMAIN active_streams :
        IsSuffix(active_streams[sid].chunks, received[sid])

\* two streams that were sent different audio, one of them past its
\* capacity and holding the tail of what it was sent
C10_Witness ==
    \E a \in DOMAIN active_streams, b \in DOMAIN active_streams :
        /\ a # b
        /\ received[a] # <<>> /\ received[b] # <<>>
        /\ Range(received[a]) \cap Range(received[b]) = {}
        /\ active_streams[a].chunks # <<>>
        /\ Len(active_streams[a].chunks) < Len(received[a])

(***************************************************************************)
(* C11.  No lost writes: when the add_audio_chunk calls made for an active *)
(* session since its stream was started or cleared fit the capacity        *)
(* together, in whatever order the calls ran, the buffer holds exactly     *)
(* those chunks, each once, in the order the calls ran, and its length is  *)
(* the sum of their lengths.                                               *)
(***************************************************************************)
C11_NoLostWrites ==
    \A sid \in DOMAIN active_streams :
        TotalBytes(received[sid]) <= max_bytes =>
            /\ active_streams[sid].chunks = received[sid]
            /\ TotalBytes(active_streams[sid].chunks) = TotalBytes(received[sid])

\* two calls with different chunks ran for one stream, their sizes fit the
\* capacity together, and the buffer holds both
C11_Witness ==
    \E sid \in DOMAIN active_streams :
        /\ Len(received[sid]) >= 2
        /\ received[sid][1] # received[sid][2]
        /\ TotalBytes(received[sid]) <= max_bytes
        /\ Len(active_streams[sid].chunks) = Len(received[sid])

(***************************************************************************)
(* C12.  Streams of different sessions are isolated: every active stream   *)
(* has a lock of its own; an add_audio_chunk for an active session A is    *)
(* possible whatever has happened on session B; and an append, a clear or  *)
(* a stop for A leaves B's stream, buffer and lock as they were.           *)
(***************************************************************************)
C12_StreamsIsolated ==
    [][/\ stream_locks = DOMAIN active_streams
       /\ \A a \in DOMAIN active_streams :
             Len(received[a]) < MaxReceived
                => ENABLED (\E chunk \in Chunks : AddAudioChunk(a, chunk))
       /\ \A a \in StreamIds, b \in DOMAIN active_streams :
             (/\ a # b
              /\ \/ StopStream(a)
                 \/ ClearStream(a)
                 \/ \E chunk \in Chunks : AddAudioChunk(a, chunk))
                => /\ b \in DOMAIN active_streams'
                   /\ active_streams'[b] = active_streams[b]
                   /\ b \in stream_locks']_vars

\* one session's stream was stopped while the other's buffer holds the two
\* chunks it was sent
C12_Witness ==
    \E a \in StreamIds, b \in DOMAIN active_streams :
        /\ a # b
        /\ a \notin DOMAIN active_streams /\ a \notin stream_locks
        /\ Len(active_streams[b].chunks) = 2
        /\ active_streams[b].chunks = received[b]

(***************************************************************************)
(* C18.  As stated: unpair(id) removes the session from the dict entirely  *)
(* and returns true, and returns false leaving the dict unchanged if the   *)
(* dict held no such session; after a successful unpair get(id) is absent  *)
(* and get_by_pin with the removed session's pin is absent.                *)
(***************************************************************************)
C18_UnpairThenPinAbsent ==
    [][\A id \in SessionIds :
          UnpairSession(id) =>
             IF id \in Ids(sessions)
             THEN /\ last'.ok
                  /\ Range(sessions') = {s \in Held : s.id # id}
                  /\ get_session(sessions', id, now) = Absent
                  /\ \A s \in Held :
                        s.id = id =>
                           get_session_by_pin(sessions', s.pin, now) = Absent
             ELSE ~last'.ok /\ sessions' = sessions]_vars

\* C18 as amended: unpair(id) removes the session from the dict entirely and
\* returns true, and returns false leaving the dict unchanged if the dict
\* held no such session; after a successful unpair get(id) is absent and
\* get_by_pin with the removed session's pin never returns that session: it
\* is absent unless another unexpired session of the dict has the same pin,
\* and then it returns such a session.
C18_UnpairThenNotFound ==
    [][\A id \in SessionIds :
          UnpairSession(id) =>
             IF id \in Ids(sessions)
             THEN /\ last'.ok
                  /\ Range(sessions') = {s \in Held : s.id # id}
                  /\ get_session(sessions', id, now) = Absent
                  /\ \A s \in Held :
                        s.id = id =>
                           LET r == get_session_by_pin(sessions', s.pin, now)
                               others == {t \in Held : /\ t.id # id
                                                       /\ t.pin = s.pin
                                                       /\ ~PastExpiry(t, now)}
                           IN  IF others = {}
                               THEN r = Absent
                               ELSE r # Absent /\ r[1] \in others
             ELSE ~last'.ok /\ sessions' = sessions]_vars

\* an unpair answered true, the id it was given is gone from the dict, and
\* the dict still holds another session, unexpired
C18_Witness ==
    /\ last.op = "unpair" /\ last.ok
    /\ last.sid \notin Ids(sessions)
    /\ \E s \in Held : ~PastExpiry(s, now)

(***************************************************************************)
(* C19.  A successful pair(id, d) with a device_info d provided, the empty *)
(* dict included, leaves the session's device_info equal to d, nothing of  *)
(* the earlier device_info surviving; with no d provided device_info is    *)
(* left as it was.                                                         *)
(***************************************************************************)
C19_DeviceInfoReplaced ==
    [][\A id \in SessionIds, info \in DeviceInfoArgs :
          (PairSession(id, info) /\ last'.ok) =>
             \A s \in Held, t \in Range(sessions') :
                (s.id = id /\ t.id = id) =>
                    t.device_info = IF info # <<>> THEN info[1]
                                                   ELSE s.device_info]_vars

(***************************************************************************)
(* C20.  pair(id, d) on a session that is paired already and not past its  *)
(* expiry returns true, every time, and the session is paired afterwards.  *)
(***************************************************************************)
C20_RepairSucceeds ==
    [][\A id \in SessionIds, info \in DeviceInfoArgs :
          (/\ PairSession(id, info)
           /\ \E s \in Held : s.id = id /\ s.paired /\ ~PastExpiry(s, now))
             => /\ last'.ok
                /\ \E t \in Range(sessions') : t.id = id /\ t.paired]_vars

\* pair() answered true for a session it found paired already, and the
\* session is paired
C20_Witness ==
    /\ last.op = "pair" /\ last.ok /\ last.ret = <<last.sid>>
    /\ \E s \in Held : s.id = last.sid /\ s.paired /\ ~PastExpiry(s, now)

(***************************************************************************)
(* C13.  A connection whose session id get() reports absent at connect     *)
(* time (no such session in the dict, or one past its expiry) is not       *)
(* accepted: the handler closes it with code 1008, and from then on no     *)
(* frame of that connection is read, answered or passed to the relay.      *)
(***************************************************************************)
C13_AbsentSessionRejected ==
    [][\A c \in ConnIds :
          /\ \A sid \in SessionIds :
                (/\ Connect(c, sid)
                 /\ ~ \E s \in Held : s.id = sid /\ ~PastExpiry(s, now))
                   => /\ conns'[c].state = "closed"
                      /\ conns'[c].code = 1008
                      /\ conns'[c].out = <<>>
          /\ (conns[c].state = "closed" /\ conns[c].code = 1008)
                => /\ conns'[c] = conns[c]
                   /\ \A message \in Frames : ~ReceiveFrame(c, message)]_vars

\* a connection was refused with 1008 for a session the dict still holds,
\* past its expiry, whose audio stream is active
C13_Witness ==
    \E c \in ConnIds :
        /\ conns[c].state = "closed" /\ conns[c].code = 1008
        /\ conns[c].sid \in DOMAIN active_streams
        /\ \E s \in Held : s.id = conns[c].sid /\ PastExpiry(s, now)

(***************************************************************************)
(* C14.  The handler checks on every inbound message that the connection's *)
(* session is still in the dict and unexpired: a binary frame read on an   *)
(* open connection whose session has expired or been removed is not        *)
(* appended to the relay.                                                  *)
(***************************************************************************)
C14_NoAppendAfterSessionGone ==
    [][\A c \in ConnIds, message \in Frames :
          (/\ ReceiveFrame(c, message)
           /\ "bytes" \in DOMAIN message
           /\ ~ \E s \in Held : s.id = conns[c].sid /\ ~PastExpiry(s, now))
             => /\ active_streams' = active_streams
                /\ received' = received]_vars

(***************************************************************************)
(* C15.  A text frame whose payload is not well-formed JSON is answered    *)
(* with one error reply and the connection stays open.                     *)
(***************************************************************************)
C15_MalformedJsonAnswered ==
    [][\A c \in ConnIds, message \in Frames :
          (/\ ReceiveFrame(c, message)
           /\ "text" \in DOMAIN message
           /\ json_loads(message.text).raises)
             => /\ conns'[c].state = "open"
                /\ Len(conns'[c].out) = 1
                /\ conns'[c].out[1].type = "error"]_vars

(***************************************************************************)
(* C16.  Every frame read on an accepted connection gets exactly one       *)
(* reply within the pass of the loop that read it: a binary frame of n     *)
(* bytes is passed to add_audio_chunk for the connection's session id and  *)
(* answered with audio_ack, bytes = n; a text frame holding a JSON object  *)
(* is answered with ack, message_type = the object's type.                 *)
(***************************************************************************)
C16_OneReplyPerFrame ==
    [][\A c \in ConnIds, message \in Frames :
          ReceiveFrame(c, message) =>
             /\ Len(conns'[c].out) = 1
             /\ "bytes" \in DOMAIN message =>
                   /\ conns'[c].out[1] = [type |-> "audio_ack",
                                          bytes |-> message.bytes.len]
                   /\ conns[c].sid \in DOMAIN active_streams =>
                         received'[conns[c].sid] =
                            Append(received[conns[c].sid], message.bytes)
             /\ ("text" \in DOMAIN message
                    /\ message.text = "{\"type\": \"offer\"}") =>
                   /\ conns'[c].out[1].type = "ack"
                   /\ conns'[c].out[1].message_type = "offer"]_vars

(***************************************************************************)
(* C17.  A receive failure or a clean disconnect on one connection ends    *)
(* the loop of that connection and nothing else: every other connection is *)
(* as it was, an open connection can go on handling frames, and the dict   *)
(* of sessions, with each session's paired, paired_at and device_info, is  *)
(* unchanged.                                                              *)
(***************************************************************************)
C17_DisconnectIsLocal ==
    [][/\ \A d \in ConnIds :
             conns[d].state = "open"
                => ENABLED (\E message \in Frames : ReceiveFrame(d, message))
       /\ \A c \in ConnIds :
             (ClientDisconnects(c) \/ ReceiveFails(c)) =>
                /\ conns'[c].state \in {"disconnected", "failed"}
                /\ \A d \in ConnIds \ {c} : conns'[d] = conns[d]
                /\ Ids(sessions') = Ids(sessions)
                /\ \A s \in Held : \E t \in Range(sessions') :
                      /\ t.id = s.id
                      /\ t.paired = s.paired
                      /\ t.paired_at = s.paired_at
                      /\ t.device_info = s.device_info]_vars

\* of two connections of one paired session, one has ended and the other
\* is open and has answered a frame
C17_Witness ==
    \E c \in ConnIds, d \in ConnIds :
        /\ conns[c].state = "failed"
        /\ conns[d].state = "open" /\ conns[d].out # <<>>
        /\ conns[d].sid = conns[c].sid
        /\ \E s \in Held : /\ s.id = conns[c].sid
                           /\ s.paired /\ s.device_info = Pixel

(***************************************************************************)
(* C21.  The bulk reset behind DELETE /v1/cast/sessions removes every      *)
(* session of the dict, unexpired and paired ones included, and answers    *)
(* with the number removed: afterwards the dict is empty, so the list of   *)
(* active sessions is empty and get(id) is absent for every earlier id.    *)
(***************************************************************************)
C21_ResetRemovesAll ==
    [][ResetEndpoint =>
          /\ last'.status = 200
          /\ last'.ret = <<Len(sessions)>>
          /\ sessions' = <<>>
          /\ get_all_sessions(sessions', now) = <<>>
          /\ \A s \in Held : get_session(sessions', s.id, now) = Absent]_vars

C23_CreationFieldsFixed ==
    [][/\ \A t \in Range(sessions') : t.expires_at = t.created_at + session_ttl
       /\ \A s \in Held, t \in Range(sessions') :
             s.id = t.id => /\ t.pin = s.pin
                            /\ t.created_at = s.created_at
                            /\ t.expires_at = s.expires_at]_vars

\* a session was paired again at its expiry instant, later than its
\* creation, and its expiry is still created_at + ttl
C23_Witness ==
    /\ last.op = "pair" /\ last.ok /\ last.ret = <<last.sid>>
    /\ \E s \in Held : /\ s.id = last.sid
                       /\ s.paired_at = s.expires_at
                       /\ s.paired_at > s.created_at
                       /\ now = s.expires_at

(***************************************************************************)
(* C24.  get_by_pin(pin) is determined by the dict and the clock: it is    *)
(* absent when no unexpired session has the pin, and otherwise it is the   *)
(* unexpired session with that pin that stands first in the dict, which is *)
(* the one created first; so with two live sessions sharing a pin every    *)
(* call returns the same, older one.                                       *)
(***************************************************************************)
C24_PinTieFirstCreated ==
    \A pin \in Pins :
        LET r == get_session_by_pin(sessions, pin, now)
            live == {i \in 1..Len(sessions) :
                        sessions[i].pin = pin /\ ~PastExpiry(sessions[i], now)}
        IN  IF live = {}
            THEN r = Absent
            ELSE \E m \in live :
                    /\ r = <<sessions[m]>>
                    /\ \A i \in live : /\ m <= i
                                       /\ sessions[m].created_at <= sessions[i].created_at

\* a lookup by a pin that two live sessions share, created at different
\* instants, returned the older one
C24_Witness ==
    /\ last.op = "get_by_pin" /\ last.ok
    /\ \E s \in Held, t \in Held :
          /\ s.pin = last.pin /\ t.pin = last.pin
          /\ ~PastExpiry(s, now) /\ ~PastExpiry(t, now)
          /\ s.created_at < t.created_at
          /\ last.ret = <<s.id>>

(***************************************************************************)
(* C25.  As stated: list_active() returns exactly the held sessions with   *)
(* now < expires_at, paired or not, which are exactly those get(id)        *)
(* returns; list_paired() returns exactly the members of list_active()     *)
(* that are paired.                                                        *)
(***************************************************************************)
C25_ListActiveBeforeExpiresAt ==
    LET active == Range(get_all_sessions(sessions, now))
    IN  /\ active = {s \in Held : now < s.expires_at}
        /\ active = {s \in Held : get_session(sessions, s.id, now) # Absent}
        /\ Range(get_paired_sessions(sessions, now)) = {s \in active : s.paired}

\* C25 as amended: list_active() returns exactly the held sessions with
\* now <= expires_at, paired or not, each once, which are exactly those
\* get(id) returns; list_paired() returns exactly the members of
\* list_active() that are paired, each once.
C25_ListActiveUpToExpiresAt ==
    LET active == Range(get_all_sessions(sessions, now))
    IN  /\ active = {s \in Held : now <= s.expires_at}
        /\ Len(get_all_sessions(sessions, now)) = Cardinality(active)
        /\ active = {s \in Held : get_session(sessions, s.id, now) # Absent}
        /\ Range(get_paired_sessions(sessions, now)) = {s \in active : s.paired}
        /\ Len(get_paired_sessions(sessions, now))
              = Cardinality({s \in active : s.paired})

\* list_active() returned one session, unpaired and at its expiry instant,
\* and left out another that the dict holds past its expiry
C25_Witness ==
    /\ last.op = "get_all" /\ Len(last.ret) = 1
    /\ \E s \in Held, t \in Held :
          /\ last.ret = <<s.id>>
          /\ now = s.expires_at /\ ~s.paired
          /\ PastExpiry(t, now)

(***************************************************************************)
(* C26.  The reaper exists only between start() and stop(): a new manager  *)
(* has none, only start() and stop() change whether there is one, start()  *)
(* leaves exactly one task however often it is called, stop() leaves none, *)
(* start() after stop() creates one again, and while there is none no      *)
(* pass of the reaper runs and no session is reaped.                       *)
(***************************************************************************)
C26_ReaperBetweenStartAndStop ==
    [][/\ reaper_tasks = (IF cleanup_task = "running" THEN 1 ELSE 0)
       /\ reaper_tasks' = (IF cleanup_task' = "running" THEN 1 ELSE 0)
       /\ (cleanup_task' # cleanup_task \/ reaper_tasks' # reaper_tasks)
             => (StartManager \/ StopManager)
       /\ StartManager => (cleanup_task' = "running" /\ reaper_tasks' = 1)
       /\ StopManager => (cleanup_task' = "none" /\ reaper_tasks' = 0)
       /\ cleanup_task = "none" => (~CleanupTick /\ reaped' = reaped)]_vars

\* start() was called while the reaper was running, after it had reaped a
\* session, and there is one reaper task
C26_Witness ==
    /\ last.op = "start" /\ ~last.ok
    /\ cleanup_task = "running" /\ reaper_tasks = 1
    /\ reaped # {}

(***************************************************************************)
(* C27.  start_stream is idempotent: called for a session whose stream is  *)
(* active it returns the buffer the stream already has, chunks intact, and *)
(* changes neither the streams nor the locks; only a call for a session    *)
(* with no stream creates a buffer, an empty one.                          *)
(***************************************************************************)
C27_StartIdempotent ==
    [][\A sid \in StreamIds :
          StartStream(sid) =>
             IF sid \in DOMAIN active_streams
             THEN /\ last'.ret = <<active_streams[sid]>>
                  /\ ~last'.ok
                  /\ active_streams' = active_streams
                  /\ stream_locks' = stream_locks
             ELSE /\ last'.ok
                  /\ last'.ret = <<active_streams'[sid]>>
                  /\ active_streams'[sid].chunks = <<>>
                  /\ \A o \in DOMAIN active_streams :
                        active_streams'[o] = active_streams[o]]_vars

\* a second start_stream has just returned the buffer holding the two
\* chunks the stream was sent
C27_Witness ==
    /\ last.op = "start_stream"
    /\ ~last.ok
    /\ last.sid \in DOMAIN active_streams
    /\ last.ret = <<active_streams[last.sid]>>
    /\ Len(active_streams[last.sid].chunks) = 2

(***************************************************************************)
(* C28.  stop_stream for a session with a stream removes the stream and    *)
(* its lock and returns the stream's buffer with its chunks intact; for a  *)
(* session with none it returns None and changes nothing.  After the call  *)
(* the session is not among get_active_streams(), the other streams are as *)
(* they were, and a later start_stream returns a new, empty buffer.        *)
(***************************************************************************)
C28_StopReturnsBuffer ==
    [][\A sid \in StreamIds :
          StopStream(sid) =>
             /\ IF sid \in DOMAIN active_streams
                THEN last'.ret = <<active_streams[sid]>>
                ELSE /\ last'.ret = <<>>
                     /\ active_streams' = active_streams
                     /\ stream_locks' = stream_locks
             /\ sid \notin get_active_streams(active_streams')
             /\ sid \notin stream_locks'
             /\ \A o \in DOMAIN active_streams \ {sid} :
                   /\ o \in get_active_streams(active_streams')
                   /\ active_streams'[o] = active_streams[o]
             /\ start_stream(active_streams', stream_locks', sid, now').ret
                   = NewBuffer(now')]_vars

\* stop_stream has just returned a buffer with the two chunks its stream was
\* sent, and the stream is gone
C28_Witness ==
    /\ last.op = "stop_stream"
    /\ last.ok
    /\ Len(last.ret[1].chunks) = 2
    /\ last.sid \notin get_active_streams(active_streams)
    /\ last.sid \notin stream_locks

(***************************************************************************)
(* C29.  add_audio_chunk for a session with no active stream is a no-op:   *)
(* the call is always possible and returns None, it creates neither a      *)
(* stream nor a lock, and every existing buffer is left as it was.         *)
(***************************************************************************)
C29_AddWithoutStreamIsNoOp ==
    [][\A sid \in StreamIds :
          sid \notin DOMAIN active_streams =>
             /\ ENABLED (\E chunk \in Chunks : AddAudioChunk(sid, chunk))
             /\ \A chunk \in Chunks :
                   AddAudioChunk(sid, chunk) =>
                      /\ ~last'.ok
                      /\ last'.ret = <<>>
                      /\ active_streams' = active_streams
                      /\ stream_locks' = stream_locks
                      /\ received' = received]_vars

\* add_audio_chunk has just returned for a session that has no stream, while
\* the other session's stream holds the chunk it was sent
C29_Witness ==
    /\ last.op = "add_audio_chunk"
    /\ ~last.ok
    /\ last.sid \notin DOMAIN active_streams
    /\ last.sid \notin stream_locks
    /\ \E o \in DOMAIN active_streams : Len(active_streams[o].chunks) = 1

(***************************************************************************)
(* C30.  clear_stream for a session with a stream empties the stream's     *)
(* buffer without stopping the stream and returns True: the session stays  *)
(* among get_active_streams() with its lock, the buffer has duration 0 and *)
(* an empty WAV rendering, and the other streams are untouched.  For a     *)
(* session with no stream it returns False and changes nothing.  A chunk   *)
(* added to an active stream, cleared before or not, is appended to the    *)
(* stream's buffer under the capacity limit.                               *)
(***************************************************************************)
C30_ClearKeepsStream ==
    [][/\ \A sid \in StreamIds :
             ClearStream(sid) =>
                IF sid \in DOMAIN active_streams
                THEN /\ last'.ok
                     /\ sid \in get_active_streams(active_streams')
                     /\ sid \in stream_locks'
                     /\ active_streams'[sid].chunks = <<>>
                     /\ get_duration_seconds(active_streams'[sid]) = 0
                     /\ to_wav_bytes(active_streams'[sid]) = <<>>
                     /\ \A o \in DOMAIN active_streams \ {sid} :
                           active_streams'[o] = active_streams[o]
                     /\ \A chunk \in Chunks :
                           add_chunk(active_streams'[sid], chunk).chunks =
                              IF chunk.len <= max_bytes
                              THEN <<chunk>>
                              ELSE <<>>
                ELSE /\ ~last'.ok
                     /\ active_streams' = active_streams
                     /\ stream_locks' = stream_locks
      /\ \A sid \in DOMAIN active_streams, chunk \in Chunks :
             AddAudioChunk(sid, chunk) =>
                /\ active_streams'[sid] = add_chunk(active_streams[sid], chunk)
                /\ TotalBytes(active_streams'[sid].chunks) <= max_bytes]_vars

\* clear_stream has just returned True for a stream, which is still active
\* and empty, while the other stream holds the chunk it was sent
C30_Witness ==
    /\ last.op = "clear_stream"
    /\ last.ok
    /\ last.sid \in get_active_streams(active_streams)
    /\ active_streams[last.sid].chunks = <<>>
    /\ \E o \in DOMAIN active_streams \ {last.sid} :
          Len(active_streams[o].chunks) = 1

(***************************************************************************)
(* C31.  Audio-stream state and session state are independent: unpairing,  *)
(* reaping, the passing of a Session's expiry and its lookup leave the     *)
(* relay's streams, locks and buffers as they were; start_stream,          *)
(* stop_stream, clear_stream and add_audio_chunk leave the Session store   *)
(* and every Session's fields as they were; no step changes both.          *)
(***************************************************************************)
C31_RelayAndStoreIndependent ==
    [][/\ \A id \in SessionIds :
             UnpairSession(id) \/ GetSession(id)
                => UNCHANGED <<active_streams, stream_locks>>
       /\ CleanupTick \/ Tick => UNCHANGED <<active_streams, stream_locks>>
       /\ \A sid \in StreamIds :
             \/ StartStream(sid)
             \/ StopStreamNoted(sid)
             \/ ClearStream(sid)
             \/ \E chunk \in OneChunk : AddAudioChunk(sid, chunk)
             => sessions' = sessions
       /\ sessions' # sessions
             => UNCHANGED <<active_streams, stream_locks>>]_vars

\* a paired Session has just been unpaired while the stream of its id holds
\* a chunk
C31_Witness ==
    /\ last.op = "unpair"
    /\ last.ok
    /\ last.sid \in DOMAIN active_streams
    /\ active_streams[last.sid].chunks # <<>>

(***************************************************************************)
(* C32.  The serialized view of a Session carries the PIN exactly while    *)
(* the Session is unpaired, in to_dict and so in the session listing; a    *)
(* paired Session that stays in the store stays paired, so no later view   *)
(* of it carries the PIN.                                                  *)
(***************************************************************************)
C32_PinHiddenOncePaired ==
    [][/\ \A s \in Range(sessions) :
             to_dict(s, now).pin = IF s.paired THEN <<>> ELSE <<s.pin>>
       /\ \A i \in 1..Len(list_sessions(sessions, now)) :
             LET view == list_sessions(sessions, now)[i]
             IN  view.paired => view.pin = <<>>
       /\ \A id \in Ids(sessions) \cap Ids(sessions') :
             Lookup(sessions, id)[1].paired
                => /\ Lookup(sessions', id)[1].paired
                   /\ to_dict(Lookup(sessions', id)[1], now').pin = <<>>]_vars

\* the listing shows a paired Session without its PIN next to an unpaired
\* one with its PIN
C32_Witness ==
    \E i, j \in 1..Len(list_sessions(sessions, now)) :
       LET views == list_sessions(sessions, now)
       IN  /\ views[i].paired
           /\ views[i].pin = <<>>
           /\ ~views[j].paired
           /\ views[j].pin # <<>>

(***************************************************************************)
(* C33.  A declined PIN redemption is reported as not-found and never as   *)
(* an internal error: whatever the PIN and whenever the redemption runs,   *)
(* the pairing endpoint answers 200 (paired) or 404, never 500.            *)
(***************************************************************************)
C33_DeclinedRedemptionIs404 ==
    [][\A pin \in Pins, info \in DeviceInfoArgs :
          PairEndpoint(pin, info) => last'.status \in {200, 404}]_vars

C35_SignalingStateForwardOnly ==
    [][/\ \A t \in Range(sessions') :
             /\ t.signaling_state \in Range(SignalingStates)
             /\ t.id \notin Ids(sessions) => t.signaling_state = "new"
       /\ \A s \in Held, t \in Range(sessions') :
             s.id = t.id =>
                /\ Forward(s.signaling_state, t.signaling_state)
                /\ t.signaling_state = s.signaling_state]_vars

\* the reaper has just spared a paired Session, whose signaling_state is
\* still the one it was created with
C35_Witness ==
    /\ last.op = "cleanup"
    /\ \E s \in Held : /\ s.paired
                       /\ s.paired_at > s.created_at
                       /\ s.signaling_state = "new"

(***************************************************************************)
(* C36.  add_chunk evicts no more than it must: after add_chunk(c) the     *)
(* buffer holds the longest suffix of the previous chunks followed by c    *)
(* whose total size is at most the capacity.  So c is the buffer's last    *)
(* chunk whenever len(c) is at most the capacity, and the buffer is empty  *)
(* when len(c) alone exceeds it.                                           *)
(***************************************************************************)
C36_EvictionIsMinimal ==
    [][\A chunk \in Chunks :
          BufferAdd(chunk) =>
             LET all == Append(active_streams[BufferId].chunks, chunk)
                 kept == active_streams'[BufferId].chunks
             IN  /\ IsSuffix(kept, all)
                 /\ TotalBytes(kept) <= max_bytes
                 /\ \A k \in 0..Len(all) :
                       TotalBytes(LastK(all, k)) <= max_bytes => k <= Len(kept)
                 /\ chunk.len <= max_bytes
                       => kept # <<>> /\ kept[Len(kept)] = chunk
                 /\ chunk.len > max_bytes => kept = <<>>]_vars

\* the third chunk did not fit with the two held: the oldest alone was
\* evicted and the buffer holds the second and the third
C36_Witness ==
    /\ last.op = "add_chunk"
    /\ Len(received[BufferId]) = 3
    /\ TotalBytes(received[BufferId]) > max_bytes
    /\ active_streams[BufferId].chunks = LastK(received[BufferId], 2)

(***************************************************************************)
(* C37.  The channel handler never starts an audio stream.  A binary frame *)
(* read on a connection whose session has no active stream is answered     *)
(* with an audio_ack carrying the frame's byte count and the connection    *)
(* stays open, yet the relay is left as it was: the chunk is buffered      *)
(* nowhere.  Which streams are active changes only in a call of            *)
(* start_stream, never in a step of the handler.                           *)
(***************************************************************************)
C37_HandlerNeverStartsStream ==
    [][/\ \A c \in ConnIds, message \in Frames :
             (/\ ReceiveFrame(c, message)
              /\ "bytes" \in DOMAIN message
              /\ conns[c].sid \notin DOMAIN active_streams)
                => /\ conns'[c].state = "open"
                   /\ conns'[c].out = <<[type |-> "audio_ack",
                                         bytes |-> message.bytes.len]>>
                   /\ active_streams' = active_streams
                   /\ stream_locks' = stream_locks
                   /\ received' = received
       /\ DOMAIN active_streams' # DOMAIN active_streams
             => \E sid \in StreamIds : StartStream(sid)]_vars

\* a binary frame has just been acknowledged with its byte count on an open
\* connection of a live session for which no stream was started
C37_Witness ==
    \E c \in ConnIds :
        /\ conns[c].state = "open"
        /\ Len(conns[c].out) = 1
        /\ conns[c].out[1].type = "audio_ack"
        /\ conns[c].out[1].bytes > 0
        /\ conns[c].sid \notin DOMAIN active_streams
        /\ active_streams = <<>>

(***************************************************************************)
(* C38.  The breaker's failure count is the number of failures recorded    *)
(* since the last recorded success.  Recording a failure that brings this  *)
(* number to failure_threshold opens the breaker, and it opens in no other *)
(* way.  While it is OPEN, can_execute answers false and leaves it OPEN    *)
(* until timeout seconds have passed since the last recorded failure; from *)
(* then on can_execute answers true and moves it to HALF_OPEN.             *)
(* retry_with_backoff calls the wrapped function only in a pass in which   *)
(* can_execute answered true, and ends refused otherwise.                  *)
(***************************************************************************)
C38_BreakerOpensAndWaits ==
    [][/\ breaker.failure_count = tally.failures
       /\ RecordSuccess \/ FuncReturns => breaker'.failure_count = 0
       /\ RecordFailure \/ FuncRaises =>
             (tally'.failures >= failure_threshold => breaker'.state = "open")
       /\ breaker.state # "open" /\ breaker'.state = "open" =>
             /\ RecordFailure \/ FuncRaises
             /\ tally'.failures >= failure_threshold
       /\ (CanExecute \/ RetryAttempt) /\ breaker.state = "open" =>
             IF time_time(now) - tally.failed_at >= timeout
             THEN last'.ok /\ breaker'.state = "half_open"
             ELSE ~last'.ok /\ breaker'.state = "open"
       /\ retry.pc # "calling" /\ retry'.pc = "calling" =>
             RetryAttempt /\ last'.ok
       /\ RetryAttempt /\ ~last'.ok =>
             retry'.pc = "idle" /\ retry'.outcome = "refused"]_vars

\* can_execute has just answered true and moved the breaker to HALF_OPEN:
\* failure_threshold failures were recorded in a row and timeout seconds
\* have passed since the last
C38_Witness ==
    /\ last.op = "can_execute"
    /\ last.ok
    /\ breaker.state = "half_open"
    /\ breaker.success_count = 0
    /\ tally.failures >= failure_threshold
    /\ time_time(now) - tally.failed_at >= timeout

(***************************************************************************)
(* C39.  While the breaker is HALF_OPEN every recorded failure returns it  *)
(* to OPEN, and it becomes CLOSED only by the success that completes       *)
(* success_threshold successes recorded in HALF_OPEN with no failure       *)
(* between them.                                                           *)
(***************************************************************************)
C39_HalfOpenFailureReopens ==
    [][/\ (RecordFailure \/ FuncRaises) /\ breaker.state = "half_open" =>
             breaker'.state = "open"
       /\ breaker.state = "half_open" /\ breaker'.state = "closed" =>
             /\ RecordSuccess \/ FuncReturns
             /\ tally.clean + 1 >= success_threshold]_vars

====
